---- MODULE Spec2Model ----
(***************************************************************************)
(* Model of the audio capture pipeline of the repository:                  *)
(*   src/src/audio.rs  AudioWriter and CaptureDevice::read (the read loop) *)
(*   src/src/main.rs   the device thread around read and the shared state  *)
(*   src/src/data.rs   Reader::read, the telemetry poll of status and peak *)
(* One device (the UMC endpoint, 2 channels) is modelled in full; of the    *)
(* I2S pipeline the model keeps the health code and the steps that write a *)
(* health code.  Time is counted in whole seconds: every Instant::now() or *)
(* elapsed() of the code reads the variable now, and Tick lets any amount  *)
(* of time pass between two steps.                                         *)
(***************************************************************************)
EXTENDS Integers, Sequences, FiniteSets, TLC

\* ---------------------------------------------------------------- bounds
\* Last second of wall-clock time the model explores.
MaxTime == 3
\* Last second explored by the rotation specification (two rotations).
MaxTimeRot == 21
\* Largest number of frames the hardware reports available in one cycle.
MaxAvail == 1
\* Frames delivered per session before the hardware stays idle.
MaxFrames == 2
\* Faults (hardware or storage) injected over one run.
MaxFaults == 1
\* Read cycles counted after a hardware event.
MaxHeal == 2
\* Consecutive failures of read followed by the retry specification.
MaxRetries == 3
\* Last second explored by the hardware and retry specifications.
MaxTimeHw == 1

\* ------------------------------------------------------ program constants
AUDIO_FILE_DURATION == 10
CLOCK_PERIOD == 1
NO_DATA_SECS == 2
Channels == 2
MinI32 == (0 - 2147483647) - 1
StatusOk == 0
StatusNoData == 1
StatusDisconnected == 2
InitialMax == 0
NearZeroBits == 28
PeakScale == 1000000

\* Sample values fed by the hardware: zero, the smallest positive value
\* outside the near-zero band, and a negative value.
SampleVals == {0, 16, -1}
\* Sample values of a silent stream.
SilentVals == {0}
\* Silence and one value outside the near-zero band.
LiveVals == {0, 16}
\* Samples on both sides of the near-zero band: 15 and 16 around 28 leading
\* zero bits, 2^28 and -2^28 with 28 trailing zero bits.
ProbeVals == {15, 16, 268435456, -268435456}
\* The smallest i32 next to samples of either sign.
MinVals == {MinI32, 1, -1}
\* Samples of small magnitude and either sign.
DitherVals == {1, 15, -1, -15}

\* ------------------------------------------------------------ i32 helpers
\* i32::abs; for i32::MIN a release build wraps to i32::MIN (a debug build
\* panics); the sample sets below do not hold i32::MIN.
abs_i32(x) == IF x = MinI32 THEN MinI32 ELSE IF x < 0 THEN 0 - x ELSE x

RECURSIVE BitLen(_)
BitLen(u) == IF u = 0 THEN 0 ELSE 1 + BitLen(u \div 2)

\* i32::leading_zeros of the two's-complement pattern: a negative value has
\* its top bit set.
leading_zeros(x) == IF x < 0 THEN 0 ELSE 32 - BitLen(x)

RECURSIVE TrailingOf(_)
TrailingOf(x) == IF x % 2 = 1 THEN 0 ELSE 1 + TrailingOf(x \div 2)

\* i32::trailing_zeros: 32 for zero; a value and its negation share their
\* lowest set bit.
trailing_zeros(x) == IF x = 0 THEN 32 ELSE TrailingOf(x)

\* Variant: the magnitude is tested in place of the leading zero bits.
near_zero_magnitude(sample) ==
    trailing_zeros(sample) >= NearZeroBits \/ abs_i32(sample) < 16

\* Variant: only the leading zero bits are counted.
near_zero_leading_only(sample) == leading_zeros(sample) >= NearZeroBits

near_zero(sample) ==
    trailing_zeros(sample) >= NearZeroBits \/ leading_zeros(sample) >= NearZeroBits

Max(a, b) == IF a >= b THEN a ELSE b

\* The per-block loop of read: max_sample starts at i32::MIN and takes the
\* sample itself (not its absolute value) whenever abs() exceeds it.
RECURSIVE block_max_from(_, _, _)
block_max_from(block, i, acc) ==
    IF i > Len(block) THEN acc
    ELSE block_max_from(block, i + 1,
                        IF abs_i32(block[i]) > acc THEN block[i] ELSE acc)

block_max(block) == block_max_from(block, 1, MinI32)

RECURSIVE zeros_from(_, _)
zeros_from(block, i) ==
    IF i > Len(block) THEN 0
    ELSE (IF near_zero(block[i]) THEN 1 ELSE 0) + zeros_from(block, i + 1)

zeros_of(block) == zeros_from(block, 1)

\* zeros < n : the block holds a sample outside the near-zero band.
has_signal(block) == zeros_of(block) < Len(block)

\* The largest absolute sample value of a block (NoTime for an empty one).
block_abs(block) ==
    IF Len(block) = 0 THEN 0 - 1
    ELSE CHOOSE m \in {abs_i32(block[i]) : i \in 1..Len(block)} :
             \A i \in 1..Len(block) : abs_i32(block[i]) <= m

\* Variant: min in place of max.
saved_max_update_min(saved, block) ==
    IF saved <= block_max(block) THEN saved ELSE block_max(block)

\* Variant: the block maximum replaces the stored peak.
saved_max_update_overwrite(saved, block) == block_max(block)

\* *saved_max = saved_max.max(max_sample)
saved_max_update(saved, block) == Max(saved, block_max(block))

\* (guard as f32 / 1e6) as i32 : division truncating toward zero.
peak_export(v) == IF v < 0 THEN (v + (PeakScale - 1)) \div PeakScale ELSE v \div PeakScale

\* Variant: the samples of a block are written last to first.
RECURSIVE written_from_reversed(_, _)
written_from_reversed(block, i) ==
    IF i > Len(block) THEN <<>>
    ELSE written_from_reversed(block, i + 1) \o <<block[i]>>

\* for sample in mmap.iter() { writer.write_sample(sample) }: the samples
\* of the block from index i on, in the order they are written.
RECURSIVE written_from(_, _)
written_from(block, i) ==
    IF i > Len(block) THEN <<>>
    ELSE <<block[i]>> \o written_from(block, i + 1)

written(block) == written_from(block, 1)


\* ------------------------------------------------------------------ state
VARIABLES
    now,            \* wall clock, in seconds
    running,        \* the process-wide run flag
    status,         \* umc_status, the AtomicU8 health code
    max_read,       \* umc_max, the mutex-protected peak
    statuses_umc,   \* health code last exported by Reader::read
    statuses_max,   \* peak last exported by Reader::read
    pc,             \* position of the device thread
    strategy,       \* read strategy of the session: "mmap", "io" or "none"
    last_read,      \* instant of the last genuine-signal observation
    w,              \* the AudioWriter: wav_file, sample, file_start, clock
    cur,            \* the file behind wav_writer: name, samples written
    fin,            \* the file finalized last: name, header frame count
    created,        \* audio files created by the session's AudioWriter
    clock_writer,   \* the correlation log: buf, the lines held by the BufWriter;
                    \* disk, the number of lines flushed to storage
    last_rec,       \* the ClockRecord appended last
    session_start,  \* history: instant the session's AudioWriter was created
    frames,         \* history: frames delivered in the session
    passed,         \* history: samples passed to write_sample since cur was created
    rec_frames,     \* history: frames delivered since the last ClockRecord
    appended,       \* history: ClockRecords appended in the current iteration
    sig_time,       \* history: instant the last block with signal was processed
    did_store,      \* history: the liveness step of this iteration stored NoData
    silence,        \* history: "zero" while the session has delivered only zero
                    \* samples, "nodata" once NoData was stored during it, else "none"
    faults,         \* history: faults injected so far
    pcm_state,      \* state of the session's PCM stream, "Closed" without session
    heal,           \* history: read cycles completed since the last hardware
                    \* event of the session, NoTime when there was none
    i2s_status,     \* i2s_status, the other device's AtomicU8 health code
    statuses_i2s,   \* the other device's code last exported by Reader::read
    err_state,      \* history: read strategy and state of the stream when read
                    \* returned the error the handler has still to handle
    logging,        \* history switch: the sample logs and the window are kept
    captured,       \* history: samples read from the hardware in the session
    persisted,      \* history: samples passed to write_sample in the session
    win_abs,        \* history: largest |sample| processed since the last reset
    win_max,        \* history: largest block maximum stored since the last reset
    relay,          \* the channel between capture and writer thread: blocks in flight
    sent,           \* history: samples sent into the relay, in order
    stored,         \* history: samples the writer thread received and wrote
    wpc,            \* position of the writer thread
    peak_held,      \* the capture thread holds the lock of max_read
    pending,        \* the block whose maximum the capture thread is about to store
    code_in,        \* a health byte handed to Status::from
    code_out        \* the Status decoded from it

vars == <<now, running, status, max_read, statuses_umc, statuses_max, pc,
          strategy, last_read, w, cur, fin, created, clock_writer,
          last_rec, session_start, frames, passed, rec_frames, appended,
          sig_time, did_store, silence, faults, pcm_state, heal,
          i2s_status, statuses_i2s, err_state, logging, captured, persisted,
          win_abs, win_max, relay, sent, stored, wpc, peak_held, pending,
          code_in, code_out>>

window == <<win_abs, win_max>>
shared == <<running, status, max_read, window, statuses_umc, statuses_max,
            i2s_status, statuses_i2s>>
block_log == <<captured, persisted>>
side == <<logging, relay, sent, stored, wpc, peak_held, pending, code_in,
          code_out>>
hw == <<pcm_state, heal, err_state>>
writer_vars == <<w, cur, fin, created, clock_writer, last_rec>>
writer_hist == <<session_start, passed, rec_frames, appended>>
live_hist == <<sig_time, did_store, silence>>

NoTime == -1
NoWriter == [wav_file |-> 0, sample |-> 0, file_start |-> 0, clock |-> 0]
NoFile == [name |-> 0, data |-> 0]
NoFinal == [name |-> 0, header |-> 0]
NoRecord == [sample |-> 0, file |-> 0, current |-> 0]
NoClockWriter == [buf |-> <<>>, disk |-> 0]
HeaderLine == "time,file,sample"

\* ------------------------------------------------------------ AudioWriter
\* AudioWriter::new: sample 0, both marks at the creation instant.
AudioWriter_new(name, t) ==
    [wav_file |-> name, sample |-> 0, file_start |-> t, clock |-> t]

\* self.clock = self.clock + 1 s
advance_clock(wr) == [wr EXCEPT !.clock = @ + CLOCK_PERIOD]

\* The line write_clock formats: the writer's sample counter and wav_file.
\* (current is history: the name of the file wav_writer holds.)
clock_line(wr, f) == [sample |-> wr.sample, file |-> wr.wav_file, current |-> f.name]

\* BufWriter::new(File::create(..)) and writeln!(.., "time,file,sample")
new_clock_writer == [buf |-> <<HeaderLine>>, disk |-> 0]

\* writeln!(self.clock_writer, ..): the line goes to the buffer.
writeln(cw, line) == [cw EXCEPT !.buf = Append(@, line)]

\* Variant: the flush is left out.
flush_left_out(cw) == cw

\* self.clock_writer.flush(): every buffered line reaches storage.
flush(cw) == [buf |-> <<>>, disk |-> cw.disk + Len(cw.buf)]

\* Variant: file_start is not advanced.
write_wav_fields_same_start(wr) == [wr EXCEPT !.sample = 0]

\* Variant: the sample counter is not reset.
write_wav_fields_keep_sample(wr) ==
    [wr EXCEPT !.file_start = @ + AUDIO_FILE_DURATION]

\* write_wav's changes to the writer's fields: file_start += D, sample = 0;
\* wav_file is not assigned.
write_wav_fields(wr) ==
    [wr EXCEPT !.file_start = @ + AUDIO_FILE_DURATION, !.sample = 0]

\* Variant: the header is left as created.
finalize_unpatched(f) == [name |-> f.name, header |-> 0]

\* WavWriter::finalize: the header takes the frame count of the data written.
finalize(f) == [name |-> f.name, header |-> f.data \div Channels]

\* WavWriter::create: an empty file under a fresh name.
create(name) == [name |-> name, data |-> 0]

\* wav_writer.write_sample, n times.
write_samples(f, n) == [f EXCEPT !.data = @ + n]

\* Variant: the counter takes the sample count instead of the frame count.
inc_sample_by_samples(wr, s) == [wr EXCEPT !.sample = @ + s * Channels]

\* Variant: the increment is lost.
inc_sample_lost(wr, s) == wr

\* self.sample += s
inc_sample(wr, s) == [wr EXCEPT !.sample = @ + s]

\* writer.clock.elapsed() >= 1 s
clock_due(wr, t) == t - wr.clock >= CLOCK_PERIOD

\* writer.file_start.elapsed() >= AUDIO_FILE_DURATION
rotation_due(wr, t) == t - wr.file_start >= AUDIO_FILE_DURATION

\* Variant: the threshold is one second.
no_data_due_early(lr, t) == t - lr >= CLOCK_PERIOD

\* last_read.elapsed().as_secs() >= 2
no_data_due(lr, t) == t - lr >= NO_DATA_SECS

\* The blocks of s frames over the sample values vals.
BlocksOf(vals, s) == [1..(s * Channels) -> vals]

\* ------------------------------------------------------------- PCM stream
\* No session, no stream.
NoPcm == "Closed"
\* No error return waits for the handler.
NoErr == [strategy |-> "none", state |-> NoPcm]

\* The stream states the loop can observe (alsa::pcm::State); Disconnected
\* stands for every state the state match has no arm for.
PcmStates == {"Running", "Prepared", "XRun", "Suspended", "Disconnected"}

\* What the hardware does to the stream of a session: an overrun, a
\* suspension, the loss of the device.
HwEvents == {"XRun", "Suspended", "Disconnected"}

\* Variant: Prepared has no arm either.
fatal_state_prepared(st) == st \notin {"Running", "XRun", "Suspended"}

\* The `n =>` arm of the state match: read returns Err("Unexpected pcm
\* state"), no recovery call is made.
fatal_state(st) == st \notin {"Running", "Prepared", "XRun", "Suspended"}

\* The arms of the state match and the state a successful call leaves:
\* Prepared => pcm.start(), XRun => pcm.prepare(), Suspended => pcm.resume().
after_arm(st) ==
    CASE st = "Prepared" -> "Running"
      [] st = "XRun" -> "Prepared"
      [] st = "Suspended" -> "Running"
      [] OTHER -> st

\* pcm.recover(errno, true) after a failed avail_update: prepare after an
\* overrun, resume after a suspension.
recover(st) ==
    CASE st = "XRun" -> "Prepared"
      [] st = "Suspended" -> "Running"
      [] OTHER -> st

\* The stream after the block of one cycle: the direct strategy makes no
\* call that changes it, the copying strategy recovers a failed avail_update.
block_pcm(strat, st) == IF strat = "io" THEN recover(st) ELSE st

\* One more cycle completed since the last hardware event.
cycle_heal(h) == IF h = NoTime \/ h >= MaxHeal THEN h ELSE h + 1


\* ------------------------------------------------------------------- init
\* main: run flag set, health Ok, peak 0, device thread about to call read,
\* the relay empty, the writer thread about to call receive.
Started ==
    /\ now = 0
    /\ running = TRUE
    /\ status = StatusOk
    /\ max_read = InitialMax
    /\ statuses_umc = StatusOk
    /\ statuses_max = 0
    /\ pc = "outer"
    /\ strategy = "none"
    /\ last_read = 0
    /\ w = NoWriter
    /\ cur = NoFile
    /\ fin = NoFinal
    /\ created = 0
    /\ clock_writer = NoClockWriter
    /\ last_rec = NoRecord
    /\ session_start = 0
    /\ frames = 0
    /\ passed = 0
    /\ rec_frames = 0
    /\ appended = 0
    /\ sig_time = NoTime
    /\ did_store = FALSE
    /\ silence = "none"
    /\ faults = 0
    /\ pcm_state = NoPcm
    /\ heal = NoTime
    /\ i2s_status = StatusOk
    /\ statuses_i2s = StatusOk
    /\ err_state = NoErr
    /\ captured = <<>>
    /\ persisted = <<>>
    /\ win_abs = NoTime
    /\ win_max = MinI32
    /\ relay = <<>>
    /\ sent = <<>>
    /\ stored = <<>>
    /\ wpc = "head"
    /\ peak_held = FALSE
    /\ pending = <<>>
    /\ code_out = "none"

Init ==
    /\ Started
    /\ logging = FALSE
    /\ code_in = 0

\* The locals of read (session, writer, last_read) are dropped.
DropSession ==
    /\ strategy' = "none"
    /\ last_read' = 0
    /\ w' = NoWriter
    /\ cur' = NoFile
    /\ fin' = NoFinal
    /\ created' = 0
    /\ clock_writer' = NoClockWriter
    /\ last_rec' = NoRecord
    /\ session_start' = 0
    /\ frames' = 0
    /\ captured' = <<>>
    /\ persisted' = <<>>
    /\ passed' = 0
    /\ rec_frames' = 0
    /\ appended' = 0
    /\ did_store' = FALSE
    /\ silence' = "none"
    /\ pcm_state' = NoPcm
    /\ heal' = NoTime

\* read returns Err (a `?` took the error out of the function).
ReturnErr ==
    /\ pc' = "faulted"
    /\ faults' = faults + 1
    /\ err_state' = [strategy |-> strategy, state |-> pcm_state]
    /\ DropSession
    /\ UNCHANGED <<now, shared, sig_time>>

\* ----------------------------------------------------------- environment
\* Wall-clock time passes, at any point of any thread.
Tick(limit) ==
    /\ now < limit
    /\ now' = now + 1
    /\ UNCHANGED <<shared, hw, pc, strategy, last_read, writer_vars, writer_hist,
                   frames, block_log, live_hist, faults>>
    /\ UNCHANGED side

\* main.rs: the SIGINT thread clears the run flag.
Stop ==
    /\ running
    /\ running' = FALSE
    /\ UNCHANGED <<now, status, max_read, window, statuses_umc, statuses_max, pc,
                   strategy, last_read, writer_vars, writer_hist, frames, block_log,
                   live_hist, faults, hw, i2s_status, statuses_i2s>>
    /\ UNCHANGED side

\* Variant: each health code is cleared first and read afterwards.
Poll_clear_before_read ==
    /\ running
    /\ statuses_i2s' = StatusOk
    /\ i2s_status' = StatusOk
    /\ statuses_umc' = StatusOk
    /\ status' = StatusOk
    /\ IF peak_held
       THEN /\ statuses_max' = MinI32
            /\ UNCHANGED <<max_read, window>>
       ELSE /\ statuses_max' = peak_export(max_read)
            /\ max_read' = MinI32
            /\ win_abs' = NoTime
            /\ win_max' = MinI32
    /\ UNCHANGED <<now, running, pc, strategy, last_read, writer_vars,
                   writer_hist, frames, block_log, live_hist, faults, hw>>
    /\ UNCHANGED side

\* Variant: the poll waits for the lock of the peak without a time limit.
Poll_waits_for_lock ==
    /\ ~peak_held
    /\ running
    /\ statuses_i2s' = i2s_status
    /\ i2s_status' = StatusOk
    /\ statuses_umc' = status
    /\ status' = StatusOk
    /\ statuses_max' = peak_export(max_read)
    /\ max_read' = MinI32
    /\ win_abs' = NoTime
    /\ win_max' = MinI32
    /\ UNCHANGED <<now, running, pc, strategy, last_read, writer_vars,
                   writer_hist, frames, block_log, live_hist, faults, hw>>
    /\ UNCHANGED side

\* Variant: the peak is reset before it is exported.
Poll_reset_before_export ==
    /\ running
    /\ statuses_i2s' = i2s_status
    /\ i2s_status' = StatusOk
    /\ statuses_umc' = status
    /\ status' = StatusOk
    /\ IF peak_held
       THEN /\ statuses_max' = MinI32
            /\ UNCHANGED <<max_read, window>>
       ELSE /\ statuses_max' = peak_export(MinI32)
            /\ max_read' = MinI32
            /\ win_abs' = NoTime
            /\ win_max' = MinI32
    /\ UNCHANGED <<now, running, pc, strategy, last_read, writer_vars,
                   writer_hist, frames, block_log, live_hist, faults, hw>>
    /\ UNCHANGED side

\* Reader::read, one poll: each health code is fetched and cleared with
\* fetch_and(0); the peak is exported and reset to i32::MIN under the lock
\* taken with try_lock_for(50 ms); when the lock is not obtained in that
\* time, i32::MIN is exported and the peak is left alone.
Poll ==
    /\ running
    /\ statuses_i2s' = i2s_status
    /\ i2s_status' = StatusOk
    /\ statuses_umc' = status
    /\ status' = StatusOk
    /\ IF peak_held
       THEN /\ statuses_max' = MinI32
            /\ UNCHANGED <<max_read, window>>
       ELSE /\ statuses_max' = peak_export(max_read)
            /\ max_read' = MinI32
            /\ win_abs' = NoTime
            /\ win_max' = MinI32
    /\ UNCHANGED <<now, running, pc, strategy, last_read, writer_vars,
                   writer_hist, frames, block_log, live_hist, faults, hw>>
    /\ UNCHANGED side

\* The hardware changes the state of the session's stream.  The loss of
\* the device counts as an injected fault.
HwEvent(maxFaults) ==
    /\ pcm_state # NoPcm
    /\ \E st \in HwEvents :
         /\ st # pcm_state
         /\ fatal_state(st) => faults < maxFaults
         /\ pcm_state' = st
    /\ heal' = 0
    /\ UNCHANGED <<now, shared, err_state, pc, strategy, last_read, writer_vars,
                   writer_hist, frames, block_log, live_hist, faults>>
    /\ UNCHANGED side

\* ------------------------------------------------------------ I2S pipeline
\* The I2S device thread runs the same loop with i2s_status: its liveness
\* check stores NoData, its error handler stores Disconnected.
I2sCapture ==
    /\ running
    /\ \E code \in {StatusNoData, StatusDisconnected} :
         /\ code # i2s_status
         /\ i2s_status' = code
    /\ UNCHANGED <<now, running, status, max_read, window, statuses_umc, statuses_max,
                   statuses_i2s, pc, strategy, last_read, writer_vars,
                   writer_hist, frames, block_log, live_hist, faults, hw>>
    /\ UNCHANGED side

\* The I2S writer thread: writer.receive() fails and the error is handed to
\* handle_capture_device_error together with umc_status.
I2sProcessor(maxFaults) ==
    /\ running
    /\ faults < maxFaults
    /\ faults' = faults + 1
    /\ status' = StatusDisconnected
    /\ UNCHANGED <<now, running, max_read, window, statuses_umc, statuses_max,
                   i2s_status, statuses_i2s, pc, strategy, last_read,
                   writer_vars, writer_hist, frames, block_log, live_hist, hw>>
    /\ UNCHANGED side

\* ---------------------------------------------------------- device thread
\* main.rs: while running.load() { match umc.read() ... }
OuterLoop ==
    /\ pc = "outer"
    /\ pc' = IF running THEN "open" ELSE "done"
    /\ UNCHANGED <<now, shared, hw, strategy, last_read, writer_vars,
                   writer_hist, frames, block_log, live_hist, faults>>
    /\ UNCHANGED side

\* read, up to the loop: init_device (the stream is prepared and started),
\* the choice of the read strategy, AudioWriter::new (first audio file, correlation log with its header line
\* buffered), last_read = now.  Any of the calls may fail.
Open(strategies, maxFaults) ==
    /\ pc = "open"
    /\ \/ /\ faults < maxFaults
          /\ ReturnErr
       \/ /\ \E st \in strategies : strategy' = st
          /\ w' = AudioWriter_new(1, now)
          /\ cur' = create(1)
          /\ fin' = NoFinal
          /\ created' = 1
          /\ clock_writer' = new_clock_writer
          /\ last_rec' = NoRecord
          /\ last_read' = now
          /\ session_start' = now
          /\ frames' = 0
          /\ captured' = <<>>
          /\ persisted' = <<>>
          /\ passed' = 0
          /\ rec_frames' = 0
          /\ appended' = 0
          /\ did_store' = FALSE
          /\ silence' = "zero"
          /\ pcm_state' = "Running"
          /\ heal' = NoTime
          /\ pc' = "loop"
          /\ UNCHANGED <<now, shared, sig_time, faults, err_state>>
    /\ UNCHANGED side

\* Variant: the loop head does not look at the run flag.
LoopHead_ignores_flag ==
    /\ pc = "loop"
    /\ pc' = "clock"
    /\ appended' = 0
    /\ did_store' = FALSE
    /\ UNCHANGED <<now, shared, hw, strategy, last_read, writer_vars,
                   session_start, frames, block_log, passed, rec_frames, silence,
                   sig_time, faults>>
    /\ UNCHANGED side

\* while self.running.load(): the loop head; read returns Ok(()) when the
\* flag is cleared.
LoopHead ==
    /\ pc = "loop"
    /\ IF running
       THEN /\ pc' = "clock"
            /\ appended' = 0
            /\ did_store' = FALSE
            /\ UNCHANGED <<hw, strategy, last_read, writer_vars,
                           session_start, frames, block_log, passed, rec_frames, silence>>
       ELSE /\ pc' = "outer"
            /\ DropSession
            /\ UNCHANGED err_state
    /\ UNCHANGED <<now, shared, sig_time, faults>>
    /\ UNCHANGED side

\* if writer.clock.elapsed() >= 1 s { writer.write_clock()? }
\* write_clock advances the clock mark, appends the line and flushes; the
\* append or the flush may fail, and then read returns the error.
ClockStep(maxFaults) ==
    /\ pc = "clock"
    /\ \/ /\ clock_due(w, now)
          /\ w' = advance_clock(w)
          /\ clock_writer' = flush(writeln(clock_writer, clock_line(w, cur)))
          /\ last_rec' = clock_line(w, cur)
          /\ appended' = appended + 1
          /\ rec_frames' = 0
          /\ pc' = "block"
          /\ UNCHANGED <<now, shared, hw, strategy, last_read, cur, fin,
                         created, session_start, frames, block_log, passed, live_hist,
                         faults>>
       \/ /\ clock_due(w, now)
          /\ faults < maxFaults
          /\ ReturnErr
       \/ /\ ~clock_due(w, now)
          /\ pc' = "block"
          /\ UNCHANGED <<now, shared, hw, strategy, last_read, writer_vars,
                         writer_hist, frames, block_log, live_hist, faults>>
    /\ UNCHANGED side

\* One read cycle's block.  s frames are available (avail / avail_update);
\* for s > 0 every sample is folded into max_sample and the near-zero count
\* and passed to write_sample, then last_read, the sample counter and the
\* shared peak are updated.  In the direct strategy a failing write_sample
\* returns the error; in the copying strategy it panics (unwrap), and a
\* failing avail_update/recover returns the error: avail_update fails on a
\* stream that is not running, recover heals an overrun or a suspension and
\* hands any other error back.
BlockStep(vals, maxFaults) ==
    /\ pc = "block"
    /\ \/ /\ ~(strategy = "io" /\ fatal_state(pcm_state))
          /\ pcm_state' = block_pcm(strategy, pcm_state)
          /\ heal' = (IF strategy = "io" THEN cycle_heal(heal) ELSE heal)
          /\ pc' = (IF strategy = "mmap" THEN "state" ELSE "live")
          /\ UNCHANGED <<now, shared, strategy, last_read, writer_vars,
                         writer_hist, frames, block_log, live_hist, faults, err_state>>
       \/ \E s \in 1..MaxAvail :
            /\ ~(strategy = "io" /\ fatal_state(pcm_state))
            /\ frames + s <= MaxFrames
            /\ \E block \in BlocksOf(vals, s) :
                 /\ cur' = write_samples(cur, Len(block))
                 /\ passed' = passed + Len(block)
                 /\ last_read' = (IF has_signal(block) THEN now ELSE last_read)
                 /\ sig_time' = (IF has_signal(block) THEN now ELSE sig_time)
                 /\ silence' = (IF \A i \in 1..Len(block) : block[i] = 0
                                THEN silence ELSE "none")
                 /\ w' = inc_sample(w, s)
                 /\ max_read' = saved_max_update(max_read, block)
                 /\ captured' = (IF logging THEN captured \o block ELSE captured)
                 /\ persisted' = (IF logging THEN persisted \o written(block)
                                  ELSE persisted)
                 /\ win_abs' = (IF logging THEN Max(win_abs, block_abs(block))
                                ELSE win_abs)
                 /\ win_max' = (IF logging THEN Max(win_max, block_max(block))
                                ELSE win_max)
                 /\ frames' = frames + s
                 /\ rec_frames' = rec_frames + s
            /\ pcm_state' = block_pcm(strategy, pcm_state)
            /\ heal' = (IF strategy = "io" THEN cycle_heal(heal) ELSE heal)
            /\ pc' = (IF strategy = "mmap" THEN "state" ELSE "live")
            /\ UNCHANGED <<now, running, status, statuses_umc, statuses_max,
                           i2s_status, statuses_i2s, strategy, fin, created,
                           clock_writer, last_rec, session_start, appended,
                           did_store, faults, err_state>>
       \/ /\ faults < maxFaults
          /\ strategy = "mmap"
          /\ frames < MaxFrames
          /\ ReturnErr
       \/ /\ faults < maxFaults
          /\ strategy = "io"
          /\ \/ ReturnErr
             \/ /\ frames < MaxFrames
                /\ pc' = "panicked"
                /\ faults' = faults + 1
                /\ DropSession
                /\ UNCHANGED <<now, shared, sig_time, err_state>>
       \/ /\ strategy = "io"
          /\ fatal_state(pcm_state)
          /\ ReturnErr
    /\ UNCHANGED side

\* Direct strategy only: match mmap.status().state().  Running is fine;
\* Prepared, XRun and Suspended call start, prepare and resume, each of
\* which may fail; any other state is an error.
StateStep(maxFaults) ==
    /\ pc = "state"
    /\ \/ /\ ~fatal_state(pcm_state)
          /\ pcm_state' = after_arm(pcm_state)
          /\ heal' = cycle_heal(heal)
          /\ pc' = "live"
          /\ UNCHANGED <<now, shared, strategy, last_read, writer_vars,
                         writer_hist, frames, block_log, live_hist, faults, err_state>>
       \/ /\ ~fatal_state(pcm_state)
          /\ pcm_state # "Running"
          /\ faults < maxFaults
          /\ ReturnErr
       \/ /\ fatal_state(pcm_state)
          /\ ReturnErr
    /\ UNCHANGED side

\* if last_read.elapsed().as_secs() >= 2 { self.status.store(1) }
LiveStep ==
    /\ pc = "live"
    /\ IF no_data_due(last_read, now)
       THEN /\ status' = StatusNoData
            /\ did_store' = TRUE
            /\ silence' = (IF silence = "zero" THEN "nodata" ELSE silence)
       ELSE UNCHANGED <<status, did_store, silence>>
    /\ pc' = "rotate"
    /\ UNCHANGED <<now, running, max_read, window, statuses_umc, statuses_max,
                   strategy, last_read, writer_vars, writer_hist, frames, block_log,
                   sig_time, faults, hw, i2s_status, statuses_i2s>>
    /\ UNCHANGED side

\* Variant: the rotation check stands in front of the block step.
RotateStep_inside_block(maxFaults) ==
    /\ \/ /\ pc = "block"
          /\ rotation_due(w, now)
          /\ w' = write_wav_fields(w)
          /\ fin' = finalize(cur)
          /\ cur' = create(created + 1)
          /\ created' = created + 1
          /\ passed' = 0
          /\ pc' = "block"
          /\ UNCHANGED <<now, shared, hw, strategy, last_read, clock_writer,
                         last_rec, session_start, frames, block_log,
                         rec_frames, appended, live_hist, faults>>
       \/ /\ pc = "rotate"
          /\ pc' = "loop"
          /\ UNCHANGED <<now, shared, hw, strategy, last_read, writer_vars,
                         writer_hist, frames, block_log, live_hist, faults>>
    /\ UNCHANGED side

\* if writer.file_start.elapsed() >= AUDIO_FILE_DURATION { writer.write_wav()? }
\* write_wav finalizes the current file and creates the next one; either
\* may fail.  The iteration ends with the pacing sleep.
RotateStep(maxFaults) ==
    /\ pc = "rotate"
    /\ \/ /\ rotation_due(w, now)
          /\ w' = write_wav_fields(w)
          /\ fin' = finalize(cur)
          /\ cur' = create(created + 1)
          /\ created' = created + 1
          /\ passed' = 0
          /\ pc' = "loop"
          /\ UNCHANGED <<now, shared, hw, strategy, last_read, clock_writer,
                         last_rec, session_start, frames, block_log,
                         rec_frames, appended, live_hist, faults>>
       \/ /\ rotation_due(w, now)
          /\ faults < maxFaults
          /\ ReturnErr
       \/ /\ ~rotation_due(w, now)
          /\ pc' = "loop"
          /\ UNCHANGED <<now, shared, hw, strategy, last_read, writer_vars,
                         writer_hist, frames, block_log, live_hist, faults>>
    /\ UNCHANGED side

\* Variant: the device thread ends after the handler.
HandleError_thread_ends ==
    /\ pc = "faulted"
    /\ status' = StatusDisconnected
    /\ err_state' = NoErr
    /\ pc' = "done"
    /\ UNCHANGED <<now, running, max_read, window, statuses_umc, statuses_max,
                   strategy, last_read, writer_vars, writer_hist, frames, block_log,
                   live_hist, faults, pcm_state, heal, i2s_status,
                   statuses_i2s>>
    /\ UNCHANGED side

\* handle_capture_device_error: the health code becomes Disconnected, then
\* the 100 ms backoff, and the outer loop runs again.
HandleError ==
    /\ pc = "faulted"
    /\ status' = StatusDisconnected
    /\ err_state' = NoErr
    /\ pc' = "outer"
    /\ UNCHANGED <<now, running, max_read, window, statuses_umc, statuses_max,
                   strategy, last_read, writer_vars, writer_hist, frames, block_log,
                   live_hist, faults, pcm_state, heal, i2s_status,
                   statuses_i2s>>
    /\ UNCHANGED side

\* ---------------------------------------------------------- specifications
Strategies == {"mmap", "io"}

Next ==
    \/ Tick(MaxTime)
    \/ Stop
    \/ Poll
    \/ HwEvent(MaxFaults)
    \/ I2sCapture
    \/ I2sProcessor(MaxFaults)
    \/ OuterLoop
    \/ Open(Strategies, MaxFaults)
    \/ LoopHead
    \/ ClockStep(MaxFaults)
    \/ BlockStep(SampleVals, MaxFaults)
    \/ StateStep(MaxFaults)
    \/ LiveStep
    \/ RotateStep(MaxFaults)
    \/ HandleError

Spec == Init /\ [][Next]_vars


\* One session from time 0 on, silent input, no fault, no
\* shutdown and no telemetry: the writer's rotation and correlation log over
\* two rotation periods.
TickSession(limit) == pc \notin {"outer", "open"} /\ Tick(limit)

NextRot ==
    \/ TickSession(MaxTimeRot)
    \/ OuterLoop
    \/ Open(Strategies, 0)
    \/ LoopHead
    \/ ClockStep(0)
    \/ BlockStep(SilentVals, 0)
    \/ StateStep(0)
    \/ LiveStep
    \/ RotateStep(0)

SpecRot == Init /\ [][NextRot]_vars


\* The device thread with telemetry polls and faults over a few seconds:
\* liveness and peak.  The thread opens its first session at time 0.
NextLive ==
    \/ TickSession(MaxTime)
    \/ Poll
    \/ OuterLoop
    \/ Open(Strategies, MaxFaults)
    \/ LoopHead
    \/ ClockStep(MaxFaults)
    \/ BlockStep(LiveVals, MaxFaults)
    \/ StateStep(MaxFaults)
    \/ LiveStep
    \/ RotateStep(MaxFaults)
    \/ HandleError

SpecLive == Init /\ [][NextLive]_vars


\* Both pipelines and the telemetry poll next to a silent UMC stream: who
\* writes which health code.
NextDev ==
    \/ TickSession(MaxTimeHw)
    \/ Poll
    \/ I2sCapture
    \/ I2sProcessor(MaxFaults)
    \/ OuterLoop
    \/ Open(Strategies, MaxFaults)
    \/ LoopHead
    \/ ClockStep(MaxFaults)
    \/ BlockStep(SilentVals, MaxFaults)
    \/ StateStep(MaxFaults)
    \/ LiveStep
    \/ RotateStep(MaxFaults)
    \/ HandleError

SpecDev == Init /\ [][NextDev]_vars


\* The device thread from start to shutdown, with up to MaxRetries failing
\* calls.  The thread is an OS thread of its own: it is scheduled again and
\* again while it has a step to take, and every call it makes returns.
DeviceThread ==
    \/ OuterLoop
    \/ Open(Strategies, MaxRetries)
    \/ LoopHead
    \/ ClockStep(MaxRetries)
    \/ BlockStep(SilentVals, MaxRetries)
    \/ StateStep(MaxRetries)
    \/ LiveStep
    \/ RotateStep(MaxRetries)
    \/ HandleError

NextStop ==
    \/ TickSession(MaxTimeHw)
    \/ Stop
    \/ DeviceThread

SpecStop == Init /\ [][NextStop]_vars /\ WF_vars(DeviceThread)


\* The session's stream under hardware events (overrun, suspension, loss
\* of the device) and failing calls, in either read strategy.
NextHw ==
    \/ TickSession(MaxTimeHw)
    \/ HwEvent(MaxFaults)
    \/ OuterLoop
    \/ Open(Strategies, MaxFaults)
    \/ LoopHead
    \/ ClockStep(MaxFaults)
    \/ BlockStep(SilentVals, MaxFaults)
    \/ StateStep(MaxFaults)
    \/ LiveStep
    \/ RotateStep(MaxFaults)
    \/ HandleError

SpecHw == Init /\ [][NextHw]_vars


\* ------------------------------------------------------------- properties
InSession == pc \in {"loop", "clock", "block", "state", "live", "rotate"}

\* ClockRecords appended to the correlation log of the session.
Records == clock_writer.disk + Len(clock_writer.buf) - 1

\* floor(T / D) for the session's elapsed time T.
ElapsedPeriods == (now - session_start) \div AUDIO_FILE_DURATION

RotationCheckDone == pc = "rotate" /\ pc' = "loop"
RecordAppended == appended' = appended + 1
Rotated == created >= 1 /\ created' = created + 1
ZeroBlockProcessed == frames' > frames /\ silence' # "none"

\* C1 (as claimed): whenever the loop completes an iteration at elapsed time
\* T, the session has created floor(T/D) + 1 audio files, also after an
\* iteration that was delayed by more than D.
C1_FileCountExact ==
    [][RotationCheckDone => created' = ElapsedPeriods + 1]_vars

\* C1 (amended): at the end of every iteration the session has created at
\* most floor(T/D) + 1 audio files, exactly that many when no rotation is
\* still due, and an iteration creates one file when a rotation is due.
C1_FileCountCatchesUp ==
    [][RotationCheckDone =>
         /\ created' <= ElapsedPeriods + 1
         /\ (~rotation_due(w', now) => created' = ElapsedPeriods + 1)
         /\ (rotation_due(w, now) => created' = created + 1)]_vars

C1_Witness ==
    /\ pc = "loop"
    /\ created = 3
    /\ now - session_start = 2 * AUDIO_FILE_DURATION
    /\ frames > 0

\* C2: when write_wav finalizes a file, the frame count in its header is the
\* number of frames whose samples were passed to write_sample since the file
\* was created.
C2_HeaderCountsWritten ==
    [][Rotated => /\ fin'.name = cur.name
                  /\ fin'.header * Channels = passed]_vars

C2_Witness == fin.name # 0 /\ fin.header = MaxFrames /\ cur.data = 0

C4_SampleCounterResets ==
    /\ [][Rotated => w'.sample = 0]_vars
    /\ [][(created = 0 /\ created' = 1) => w'.sample = 0]_vars
    /\ [][(w'.sample # w.sample /\ created' = created)
            => /\ frames' > frames
               /\ w'.sample = w.sample + (frames' - frames)]_vars

C4_Witness ==
    /\ created = 2
    /\ w.sample = 1
    /\ fin.header = 1

\* C5: every ClockRecord names the audio file that is being written when
\* the record is appended.
C5_RecordNamesCurrentFile == last_rec.file = last_rec.current

C7_StateOneRecordPerSecond ==
    InSession =>
      /\ appended <= 1
      /\ w.clock = session_start + Records * CLOCK_PERIOD
      /\ w.clock <= now
      /\ (last_rec # NoRecord => clock_writer.buf = <<>>)
      /\ clock_writer.disk \in {0, Records + 1}

C7_OneRecordPerSecond ==
    /\ []C7_StateOneRecordPerSecond
    /\ [][(pc = "clock" /\ pc' = "block")
            => Records' = Records + (IF clock_due(w, now) THEN 1 ELSE 0)]_vars

C7_Witness ==
    /\ pc = "block"
    /\ appended = 1
    /\ Records = 3
    /\ clock_writer.disk = 4
    /\ now - w.clock >= 2

\* C8: after a block with a sample outside the near-zero band was processed,
\* NoData is not stored within the following 2 seconds.
C8_NoDataNotWithinTwoSeconds ==
    [][(pc = "live" /\ did_store' /\ sig_time # NoTime)
         => now - sig_time >= NO_DATA_SECS]_vars

C8_Witness ==
    /\ pc = "rotate"
    /\ sig_time # NoTime
    /\ last_read = sig_time
    /\ now - sig_time < NO_DATA_SECS
    /\ ~did_store
    /\ frames = MaxFrames

\* C9: once NoData was stored during a session that delivered only zero
\* samples, every telemetry poll exports NoData while the silence lasts.
C9_SilencePollsNoData ==
    [][(silence = "nodata" /\ Poll) => statuses_umc' = StatusNoData]_vars

\* C10 (as claimed): processing an all-zero block leaves the stored peak at
\* the sentinel i32::MIN.
C10_ZeroBlockKeepsSentinel ==
    [][ZeroBlockProcessed => max_read' = MinI32]_vars

\* C10 (amended): an all-zero block has maximum 0, so processing it leaves
\* the stored peak at max(stored, 0): 0 from the initial value and after a
\* telemetry reset, never above 0 because of the block.
C10_ZeroBlockPeakIsZero ==
    [][ZeroBlockProcessed =>
         max_read' = (IF max_read > 0 THEN max_read ELSE 0)]_vars

C10_Witness ==
    /\ silence # "none"
    /\ frames > 0
    /\ max_read = 0
    /\ statuses_max = peak_export(MinI32)

\* A block with genuine signal was processed by the capture loop.
SignalObserved == pc = "block" /\ frames' > frames /\ last_read' = now
\* init_device and AudioWriter::new succeeded: a session is open again.
ReopenSucceeded == pc = "open" /\ pc' = "loop"

\* C11: a health code of NoData changes back to Ok only when the capture
\* loop observes a block with signal, a code of Disconnected only when a
\* reopen succeeds; no other step, a telemetry poll included, changes the
\* code back to Ok.
C11_StickyUntilObservedOrReopened ==
    [][(status # StatusOk /\ status' = StatusOk)
         => \/ (status = StatusNoData /\ SignalObserved)
            \/ (status = StatusDisconnected /\ ReopenSucceeded)]_vars

\* A step of the UMC device thread (every one of them moves its position).
UmcCaptureStep == pc' # pc
\* A step of the I2S pipeline: its device thread or its writer thread.
I2sPipelineStep == I2sCapture \/ I2sProcessor(MaxFaults)

\* C12: a fault in one device's pipeline never changes the other device's
\* health code or peak: no step of the I2S pipeline (capture thread or
\* writer thread) changes umc_status or umc_max, and no step of the UMC
\* device thread changes i2s_status.
C12_FaultStaysInPipeline ==
    /\ [][I2sPipelineStep => UNCHANGED <<status, max_read>>]_vars
    /\ [][UmcCaptureStep => UNCHANGED i2s_status]_vars

\* C13: a health code is written only by the thread that drives that
\* device's capture: umc_status changes only in a step of the UMC device
\* thread, i2s_status only in a step of the I2S device thread.
C13_WrittenOnlyByOwnCaptureThread ==
    /\ [][status' # status => UmcCaptureStep]_vars
    /\ [][i2s_status' # i2s_status => I2sCapture]_vars

\* The device thread has ended: its outer loop was left, or it panicked.
Terminated == pc \in {"done", "panicked"}

\* C14: when read has returned an error, the device thread's next step
\* stores Disconnected and goes back to the test of the outer loop, which
\* calls read again while the run flag is set; the thread does not leave
\* its outer loop while the flag is set, however many calls have failed.
C14_RetriesAfterError ==
    /\ [][(pc = "faulted" /\ pc' # pc)
            => (status' = StatusDisconnected /\ pc' = "outer")]_vars
    /\ [][(pc = "outer" /\ pc' # pc /\ running) => pc' = "open"]_vars
    /\ [](running => pc # "done")
    /\ ((pc = "faulted" /\ running) ~> (pc = "open" \/ ~running))

C14_Witness ==
    /\ pc = "open"
    /\ running
    /\ faults = MaxRetries
    /\ status = StatusDisconnected

\* C15: no hardware or storage fault makes the thread panic, and while the
\* run flag is set the thread is never in a terminated state.
C15_NeverPanics == pc # "panicked" /\ (running => ~Terminated)

\* A step in which a storage call of the read loop fails: write_clock,
\* write_wav (finalize or create), or write_sample in either strategy.
StorageFault ==
    /\ faults' > faults
    /\ pc' # pc
    /\ \/ pc \in {"clock", "rotate"}
       \/ pc = "block" /\ (strategy = "mmap" \/ pc' = "panicked")

\* C16: a storage fault does not end the capture session: after the failed
\* call the thread is still inside the read loop, with the same stream and
\* the same read strategy.
C16_StorageFaultKeepsSession ==
    [][StorageFault => /\ pc' \in {"loop", "block", "state", "live", "rotate"}
                       /\ strategy' = strategy
                       /\ pcm_state' = pcm_state]_vars

\* C17: once the run flag is cleared the device thread terminates: the read
\* loop returns Ok(()) at its next loop head, the outer loop is left at its
\* next test (also after the handler's backoff), and a thread that has left
\* the outer loop opens no session.
C17_TerminatesAfterStop ==
    /\ (~running ~> Terminated)
    /\ [][(pc = "loop" /\ ~running /\ pc' # pc) => pc' = "outer"]_vars
    /\ [][(pc = "outer" /\ ~running /\ pc' # pc) => pc' = "done"]_vars
    /\ [][Terminated => pc' = pc]_vars

C17_Witness ==
    /\ pc = "done"
    /\ ~running
    /\ faults > 0
    /\ status = StatusDisconnected

\* The state match of the direct strategy was executed in this step.
StateChecked == pc = "state" /\ pc' # pc
\* The states the match has an arm for.
Handled == {"Running", "Prepared", "XRun", "Suspended"}
\* Every fault the run may inject has been injected: the calls of this step
\* succeed.
NoFaultLeft == faults >= MaxFaults

\* C18 (as claimed): in the direct strategy a state other than Running,
\* XRun or Suspended seen by the state match makes read return an error in
\* that cycle.
C18_OtherStateFatal ==
    [][(StateChecked /\ pcm_state \notin {"Running", "XRun", "Suspended"})
         => pc' = "faulted"]_vars

\* C18 (amended): in the direct strategy a state other than Running,
\* Prepared, XRun or Suspended seen by the state match makes read return an
\* error in that cycle; in each of those four states the cycle goes on when
\* no call fails, and a Prepared stream is started.
C18_UnhandledStateFatal ==
    [][StateChecked =>
         /\ (pcm_state \notin Handled
               => /\ pc' = "faulted"
                  /\ err_state' = [strategy |-> "mmap", state |-> pcm_state])
         /\ ((pcm_state \in Handled /\ NoFaultLeft) => pc' = "live")
         /\ ((pcm_state = "Prepared" /\ pc' = "live")
               => pcm_state' = "Running")]_vars

C18_Witness ==
    /\ pc = "faulted"
    /\ err_state = [strategy |-> "mmap", state |-> "Disconnected"]
    /\ pcm_state = NoPcm

\* C19: an overrun or a suspension is healed inside the read loop: the
\* state match answers XRun with prepare, Prepared with start and Suspended
\* with resume without touching the audio file, the sample counter or the
\* health code, and two read cycles after the last hardware event of a
\* session the stream is Running again.
C19_HealedInsideLoop ==
    /\ [][(StateChecked /\ pc' = "live")
            => /\ (pcm_state = "XRun" => pcm_state' = "Prepared")
               /\ (pcm_state \in {"Prepared", "Suspended"}
                     => pcm_state' = "Running")
               /\ UNCHANGED <<w, cur, fin, created, status>>]_vars
    /\ []((InSession /\ heal >= 2) => pcm_state = "Running")

\* A read cycle reaches its liveness check.
CycleEnd == pc \in {"block", "state"} /\ pc' = "live"

\* C20: the two read strategies are equivalent: in either one the block of
\* a cycle ends with the loop going on or with read returning an error, and
\* a cycle that goes on leaves the stream in the state the direct
\* strategy's state match leaves it in.
C20_StrategiesAgree ==
    /\ [][(pc = "block" /\ pc' # pc)
            => pc' \in {"state", "live", "faulted"}]_vars
    /\ [][CycleEnd => pcm_state' = after_arm(pcm_state)]_vars

\* ------------------------------------------------------------------ relay
\* Largest number of blocks the capture thread sends.
MaxSent == 3

\* The capacity the relay is specified with (a small constant).
RelayCapacity == 2

\* The capture thread owns the channel's only Sender (moved into its
\* closure): the channel is closed once that thread has ended.
sender_open == pc \notin {"done", "panicked"}

\* A send into the channel made by unbounded(): the block is enqueued,
\* whatever the channel holds.
relay_send(q, block) == Append(q, block)

\* The block a receive takes: the one sent first.
relay_next(q) == Head(q)

\* The samples of the blocks in flight, in sending order.
RECURSIVE Flat(_)
Flat(q) == IF q = <<>> THEN <<>> ELSE Head(q) \o Flat(Tail(q))

\* The capture thread, in a read cycle, sends a complete block to the
\* writer thread.
RelaySend(vals) ==
    /\ pc = "block"
    /\ Len(sent) < MaxSent * Channels
    /\ \E block \in BlocksOf(vals, 1) :
         /\ relay' = relay_send(relay, block)
         /\ sent' = sent \o block
    /\ UNCHANGED <<now, shared, hw, pc, strategy, last_read, writer_vars,
                   writer_hist, frames, block_log, live_hist, faults, logging,
                   stored, wpc, peak_held, pending, code_in, code_out>>

\* The writer thread: while running.load() { .. }
WriterHead ==
    /\ wpc = "head"
    /\ wpc' = IF running THEN "receive" ELSE "done"
    /\ UNCHANGED <<now, shared, hw, pc, strategy, last_read, writer_vars,
                   writer_hist, frames, block_log, live_hist, faults, logging,
                   relay, sent, stored, peak_held, pending, code_in, code_out>>

\* writer.receive() returns Ok: the block sent first is taken from the
\* channel and its samples are written in arrival order.
WriterReceive ==
    /\ wpc = "receive"
    /\ relay # <<>>
    /\ stored' = stored \o written(relay_next(relay))
    /\ relay' = Tail(relay)
    /\ wpc' = "head"
    /\ UNCHANGED <<now, shared, hw, pc, strategy, last_read, writer_vars,
                   writer_hist, frames, block_log, live_hist, faults, logging,
                   sent, peak_held, pending, code_in, code_out>>

\* writer.receive() reports the closed channel (nothing in flight, the
\* Sender dropped): Err(err) => handle_capture_device_error(&err,
\* umc_status), and the loop goes on.
WriterClosed ==
    /\ wpc = "receive"
    /\ relay = <<>>
    /\ ~sender_open
    /\ status' = StatusDisconnected
    /\ wpc' = "head"
    /\ UNCHANGED <<now, running, max_read, window, statuses_umc, statuses_max,
                   i2s_status, statuses_i2s, hw, pc, strategy, last_read,
                   writer_vars, writer_hist, frames, block_log, live_hist,
                   faults, logging, relay, sent, stored, peak_held, pending,
                   code_in, code_out>>

\* Capture thread, relay and writer thread, with a failing call and the
\* shutdown request, next to a silent stream.
NextRelay ==
    \/ Stop
    \/ OuterLoop
    \/ Open(Strategies, MaxFaults)
    \/ LoopHead
    \/ ClockStep(MaxFaults)
    \/ BlockStep(SilentVals, MaxFaults)
    \/ StateStep(MaxFaults)
    \/ LiveStep
    \/ RotateStep(MaxFaults)
    \/ HandleError
    \/ RelaySend(LiveVals)
    \/ WriterHead
    \/ WriterReceive
    \/ WriterClosed

\* The writer thread is an OS thread of its own: it is scheduled again and
\* again while it has a step to take.
WriterThread == WriterHead \/ WriterReceive \/ WriterClosed

SpecRelay == Init /\ [][NextRelay]_vars /\ WF_vars(WriterThread)


\* The state after construction with the sample logs and the window kept.
InitLog ==
    /\ Started
    /\ logging = TRUE
    /\ code_in = 0

\* One session without fault and shutdown, in both pipeline shapes (the
\* capture thread writes inline; it sends blocks the writer thread writes),
\* with the sample logs kept: the order of the persisted samples.
NextOrder ==
    \/ OuterLoop
    \/ Open(Strategies, 0)
    \/ LoopHead
    \/ ClockStep(0)
    \/ BlockStep(LiveVals, 0)
    \/ StateStep(0)
    \/ LiveStep
    \/ RotateStep(0)
    \/ RelaySend(LiveVals)
    \/ WriterHead
    \/ WriterReceive

SpecOrder == InitLog /\ [][NextOrder]_vars

\* --------------------------------------------------------- relay properties
ClosureToReport == wpc = "receive" /\ relay = <<>> /\ ~sender_open

\* C21: the relay is bounded: the blocks sent and not yet received never
\* exceed the relay's fixed capacity, however long the writer thread stalls.
C21_RelayBounded == Len(relay) <= RelayCapacity

\* C22: a send into a relay that holds its capacity of blocks completes by
\* dropping a block: the capture thread goes on and the relay holds no more
\* than its capacity afterwards.
C22_FullRelayDropsBlock ==
    [][(sent' # sent /\ Len(relay) >= RelayCapacity)
         => Len(relay') <= RelayCapacity]_vars

C24_ClosureTerminatesWriter == ClosureToReport ~> (wpc = "done")

\* ------------------------------------------------------------- peak lock
\* The block step of a cycle with frames whose thread is descheduled
\* inside `let mut saved_max = self.max_read.lock()`: the samples are
\* processed and written, the lock is taken, the peak is not yet stored.
BlockStall(vals) ==
    /\ pc = "block"
    /\ ~peak_held
    /\ ~(strategy = "io" /\ fatal_state(pcm_state))
    /\ \E s \in 1..MaxAvail :
         /\ frames + s <= MaxFrames
         /\ \E block \in BlocksOf(vals, s) :
              /\ cur' = write_samples(cur, Len(block))
              /\ passed' = passed + Len(block)
              /\ last_read' = (IF has_signal(block) THEN now ELSE last_read)
              /\ sig_time' = (IF has_signal(block) THEN now ELSE sig_time)
              /\ silence' = (IF \A i \in 1..Len(block) : block[i] = 0
                             THEN silence ELSE "none")
              /\ w' = inc_sample(w, s)
              /\ captured' = (IF logging THEN captured \o block ELSE captured)
              /\ persisted' = (IF logging THEN persisted \o written(block)
                               ELSE persisted)
              /\ frames' = frames + s
              /\ rec_frames' = rec_frames + s
              /\ pending' = block
    /\ peak_held' = TRUE
    /\ pcm_state' = block_pcm(strategy, pcm_state)
    /\ heal' = (IF strategy = "io" THEN cycle_heal(heal) ELSE heal)
    /\ pc' = "peak"
    /\ UNCHANGED <<now, shared, strategy, fin, created, clock_writer, last_rec,
                   session_start, appended, did_store, faults, err_state,
                   logging, relay, sent, stored, wpc, code_in, code_out>>

\* *saved_max = saved_max.max(max_sample), and the guard is dropped.
PeakStep ==
    /\ pc = "peak"
    /\ max_read' = saved_max_update(max_read, pending)
    /\ win_abs' = (IF logging THEN Max(win_abs, block_abs(pending)) ELSE win_abs)
    /\ win_max' = (IF logging THEN Max(win_max, block_max(pending)) ELSE win_max)
    /\ peak_held' = FALSE
    /\ pending' = <<>>
    /\ pc' = (IF strategy = "mmap" THEN "state" ELSE "live")
    /\ UNCHANGED <<now, running, status, statuses_umc, statuses_max,
                   i2s_status, statuses_i2s, hw, strategy, last_read,
                   writer_vars, writer_hist, frames, block_log, live_hist,
                   faults, logging, relay, sent, stored, wpc, code_in,
                   code_out>>

\* One session without fault and shutdown under telemetry polls, blocks of
\* positive, zero and negative samples, the capture thread holding the
\* lock of the peak for any time: the peak and its export.
NextPeak ==
    \/ Poll
    \/ OuterLoop
    \/ Open(Strategies, 0)
    \/ LoopHead
    \/ ClockStep(0)
    \/ BlockStep(SampleVals, 0)
    \/ BlockStall(SampleVals)
    \/ PeakStep
    \/ StateStep(0)
    \/ LiveStep
    \/ RotateStep(0)

SpecPeak == InitLog /\ [][NextPeak]_vars

\* ---------------------------------------------------------- peak properties
\* A step of the telemetry loop (every step of the capture thread moves pc).
Polled == pc' = pc /\ now' = now /\ running' = running

\* C25: the telemetry loop is never stalled by the capture thread: while
\* the run flag is set a poll can always be taken, and a poll taken while
\* the capture thread holds the lock of the peak exports the sentinel
\* i32::MIN for the peak, leaves the peak alone and still reads and clears
\* the health code.
C25_TelemetryNeverStalled ==
    /\ [](running => ENABLED Poll)
    /\ [][(Polled /\ peak_held)
            => /\ statuses_max' = MinI32
               /\ max_read' = max_read
               /\ statuses_umc' = status
               /\ status' = StatusOk]_vars

C25_Witness == peak_held /\ pc = "peak" /\ statuses_max = MinI32

\* C26: the poll consumes and resets the peak in one step under the lock:
\* what it exports is the peak it found, what it leaves is i32::MIN, and
\* every block maximum stored since the last reset is still in the peak.
C26_ConsumeAndResetAtomic ==
    /\ [](max_read >= win_max)
    /\ [][(Polled /\ ~peak_held)
            => /\ statuses_max' = peak_export(max_read)
               /\ max_read' = MinI32]_vars

C26_Witness ==
    /\ statuses_max = 0
    /\ max_read = 0 - 1
    /\ win_max = 0 - 1
    /\ frames = MaxFrames
    /\ ~peak_held

\* C27: once a block has been processed, the shared peak is the largest
\* absolute sample value of all blocks processed since the last reset.
C27_PeakIsMaxAbsolute == win_abs # NoTime => max_read = win_abs

\* C28: within one export window the stored peak never decreases: no step
\* of the capture thread lowers it.
C28_PeakMonotone == [][pc' # pc => max_read' >= max_read]_vars

C28_Witness ==
    /\ Len(captured) = 2 * Channels
    /\ captured[1] = 16
    /\ captured[3] = 0
    /\ captured[4] = 0
    /\ max_read = 16
    /\ pc = "live"

\* One session without fault under passing time, blocks of samples on both
\* sides of the near-zero band, the sample log kept: the liveness tracker.
NextSig ==
    \/ TickSession(MaxTimeHw)
    \/ OuterLoop
    \/ Open(Strategies, 0)
    \/ LoopHead
    \/ ClockStep(0)
    \/ BlockStep(ProbeVals, 0)
    \/ StateStep(0)
    \/ LiveStep
    \/ RotateStep(0)

SpecSig == InitLog /\ [][NextSig]_vars

\* ------------------------------------------------------ liveness properties
\* The 32-bit pattern of x has at least 28 leading zero bits (0 <= x < 2^4)
\* or at least 28 trailing zero bits (x is a multiple of 2^28).
NearZeroPattern(x) == (0 <= x /\ x < 16) \/ x % 268435456 = 0

\* The block a step has read: the samples the step added to the log.
BlockRead == Len(captured') > Len(captured)
BlockHasSignal ==
    \E i \in (Len(captured) + 1)..Len(captured') : ~NearZeroPattern(captured'[i])

\* C29: a block sets the last-signal instant to now exactly when at least
\* one of its samples is not near-zero (fewer than 28 leading and fewer
\* than 28 trailing zero bits); a block of near-zero samples only and a
\* cycle without frames leave the instant as it was.
C29_SignalIffSampleOutsideBand ==
    [][/\ (BlockRead /\ BlockHasSignal) => last_read' = now
       /\ (BlockRead /\ ~BlockHasSignal) => last_read' = last_read
       /\ (pc = "block" /\ pc' # pc /\ ~BlockRead) => last_read' = last_read]_vars

C29_Witness ==
    /\ Len(captured) = 2 * Channels
    /\ captured[1] = 268435456
    /\ captured[2] = 15
    /\ captured[3] = 0 - 268435456
    /\ captured[4] = 16
    /\ session_start = 0
    /\ last_read = 1

\* ------------------------------------------------------------ health code
\* The largest u8.
MaxByte == 255
Bytes == 0..MaxByte

\* Variant: an unknown byte decodes to the default Status.
Status_from_default(value) ==
    IF value = 0 THEN "Ok"
    ELSE IF value = 1 THEN "NoData"
    ELSE "Disconnected"

\* impl From<u8> for Status: match value { 0 => Ok, 1 => NoData,
\* 2 => Disconnected, _ => OtherError }
Status_from(value) ==
    IF value = 0 THEN "Ok"
    ELSE IF value = 1 THEN "NoData"
    ELSE IF value = 2 THEN "Disconnected"
    ELSE "OtherError"

\* Any byte may be handed to the decoder.
InitDecode ==
    /\ Started
    /\ logging = FALSE
    /\ code_in \in Bytes

\* statuses.umc = umc_status.fetch_and(0, ..).into()
Decode ==
    /\ code_out = "none"
    /\ code_out' = Status_from(code_in)
    /\ UNCHANGED <<now, shared, hw, pc, strategy, last_read, writer_vars,
                   writer_hist, frames, block_log, live_hist, faults, logging,
                   relay, sent, stored, wpc, peak_held, pending, code_in>>

NextDecode == Decode

SpecDecode == InitDecode /\ [][NextDecode]_vars

\* C30: Status::from is total on the bytes: 0, 1 and 2 decode to Ok, NoData
\* and Disconnected, and every other byte, 3 included, to OtherError.
C30_DecodeTotal ==
    code_out # "none" =>
        /\ code_out \in {"Ok", "NoData", "Disconnected", "OtherError"}
        /\ code_out = "Ok" <=> code_in = 0
        /\ code_out = "NoData" <=> code_in = 1
        /\ code_out = "Disconnected" <=> code_in = 2
        /\ code_out = "OtherError" <=> code_in \in 3..MaxByte

C30_Witness == code_in = MaxByte /\ code_out = "OtherError"

\* ------------------------------------------------- correlation log properties
\* The column names of the header line "time,file,sample", in order.
HeaderColumns == <<"time", "file", "sample">>

\* The fields of a data line, in the order the format string
\* "{nanos},{},{}" takes them: the instant, self.sample, self.wav_file.
LineColumns == <<"time", "sample", "file">>

\* C31: there is one correlation log per rotation epoch: a record appended
\* to a log that holds a record already belongs to the same audio file as
\* the record before it.
C31_OneLogPerAudioFile ==
    [][(RecordAppended /\ Records >= 1)
         => last_rec'.current = last_rec.current]_vars

\* C32: every data line of the correlation log has its fields in the order
\* of the header's column names.
C32_FieldsFollowHeader ==
    Records >= 1 => \A i \in 1..Len(HeaderColumns) : LineColumns[i] = HeaderColumns[i]

\* ---------------------------------------------------------- short buffer
\* Largest number of frames avail_update reports before a short buffer.
MaxShort == 2

\* Copying strategy: io.mmap(s, |buf| ..) hands the callback a buffer of
\* k < s frames (n = buf.len() samples).  The n samples are processed and
\* written, the counter is advanced with writer.inc_sample(s), and the
\* callback returns n / channels.
BlockShort(vals) ==
    /\ pc = "block"
    /\ strategy = "io"
    /\ ~fatal_state(pcm_state)
    /\ \E s \in 2..MaxShort :
         \E k \in 1..(s - 1) :
           /\ frames + k <= MaxFrames
           /\ \E block \in BlocksOf(vals, k) :
                /\ cur' = write_samples(cur, Len(block))
                /\ passed' = passed + Len(block)
                /\ last_read' = (IF has_signal(block) THEN now ELSE last_read)
                /\ sig_time' = (IF has_signal(block) THEN now ELSE sig_time)
                /\ silence' = (IF \A i \in 1..Len(block) : block[i] = 0
                               THEN silence ELSE "none")
                /\ w' = inc_sample(w, s)
                /\ max_read' = saved_max_update(max_read, block)
                /\ captured' = (IF logging THEN captured \o block ELSE captured)
                /\ persisted' = (IF logging THEN persisted \o written(block)
                                 ELSE persisted)
                /\ win_abs' = (IF logging THEN Max(win_abs, block_abs(block))
                               ELSE win_abs)
                /\ win_max' = (IF logging THEN Max(win_max, block_max(block))
                               ELSE win_max)
                /\ frames' = frames + k
                /\ rec_frames' = rec_frames + k
    /\ pcm_state' = block_pcm(strategy, pcm_state)
    /\ heal' = cycle_heal(heal)
    /\ pc' = "live"
    /\ UNCHANGED <<now, running, status, statuses_umc, statuses_max,
                   i2s_status, statuses_i2s, strategy, fin, created,
                   clock_writer, last_rec, session_start, appended,
                   did_store, faults, err_state>>
    /\ UNCHANGED side

\* One session without fault under passing time, silent input, the
\* copying strategy's callback receiving the requested frames or fewer:
\* the writer's sample counter.
NextCount ==
    \/ TickSession(MaxTimeHw)
    \/ OuterLoop
    \/ Open(Strategies, 0)
    \/ LoopHead
    \/ ClockStep(0)
    \/ BlockStep(SilentVals, 0)
    \/ BlockShort(SilentVals)
    \/ StateStep(0)
    \/ LiveStep
    \/ RotateStep(0)

SpecCount == Init /\ [][NextCount]_vars

\* C33: at every loop-iteration boundary the writer's sample counter is the
\* number of frames written to the current audio file since its creation.
C33_CounterIsFramesWritten == pc = "loop" => w.sample * Channels = passed

\* One session without fault under passing time, blocks of samples of
\* small magnitude and either sign, the sample log kept.
NextDither ==
    \/ TickSession(MaxTimeHw)
    \/ OuterLoop
    \/ Open(Strategies, 0)
    \/ LoopHead
    \/ ClockStep(0)
    \/ BlockStep(DitherVals, 0)
    \/ StateStep(0)
    \/ LiveStep
    \/ RotateStep(0)

SpecDither == InitLog /\ [][NextDither]_vars

\* The samples a step has added to the log.
NewSamples == {captured'[i] : i \in (Len(captured) + 1)..Len(captured')}

\* C34: every sample of magnitude at most 15, of either sign, is near-zero:
\* a block of such samples is no genuine-signal observation.
C34_SmallMagnitudeIsNearZero ==
    [][(BlockRead /\ \A x \in NewSamples : 0 - 15 <= x /\ x <= 15)
         => last_read' = last_read]_vars

\* C34, amended: the samples 0..15 are near-zero, the samples -15..-1 are
\* not: a block of samples in 0..15 is no genuine-signal observation, a
\* block with a sample in -15..-1 is one.
C34_NonNegativeDitherOnly ==
    [][/\ (BlockRead /\ \A x \in NewSamples : 0 <= x /\ x <= 15)
            => last_read' = last_read
       /\ (BlockRead /\ \E x \in NewSamples : 0 - 15 <= x /\ x <= 0 - 1)
            => last_read' = now]_vars

C34_Witness ==
    /\ Len(captured) = 2 * Channels
    /\ captured[1] = 1
    /\ captured[2] = 15
    /\ captured[3] = 15
    /\ captured[4] = 0 - 1
    /\ session_start = 0
    /\ last_read = 1

\* ------------------------------------------------------------ abs overflow
\* sample.abs() on i32::MIN in a build with overflow checks: the capture
\* thread panics inside its block step.  (Without the checks abs wraps to
\* i32::MIN, which is what abs_i32 computes.)
BlockAbsOverflow(vals) ==
    /\ pc = "block"
    /\ ~(strategy = "io" /\ fatal_state(pcm_state))
    /\ frames < MaxFrames
    /\ MinI32 \in vals
    /\ pc' = "panicked"
    /\ DropSession
    /\ UNCHANGED <<now, shared, sig_time, faults, err_state>>
    /\ UNCHANGED side

\* One session without injected fault, blocks that may hold i32::MIN, in
\* a build with or without overflow checks, the sample log kept.
NextMin ==
    \/ Poll
    \/ OuterLoop
    \/ Open(Strategies, 0)
    \/ LoopHead
    \/ ClockStep(0)
    \/ BlockStep(MinVals, 0)
    \/ BlockAbsOverflow(MinVals)
    \/ StateStep(0)
    \/ LiveStep
    \/ RotateStep(0)

SpecMin == InitLog /\ [][NextMin]_vars

\* C35: the block peak is defined for every i32: a block holding i32::MIN
\* does not make the capture thread panic, and the peak stored after it is
\* not below the absolute value of any other sample of the block.
C35_PeakDefinedForMin ==
    /\ [](pc # "panicked")
    /\ [][(BlockRead /\ MinI32 \in NewSamples)
            => \A x \in NewSamples \ {MinI32} :
                 max_read' >= (IF x < 0 THEN 0 - x ELSE x)]_vars

\* ------------------------------------------------------ rotation boundary
\* C36: a rotation happens only in the rotation check that ends a loop
\* iteration, with every block read so far written in full: the file
\* finalized holds exactly the samples passed to it, in whole frames, and
\* the counter and the new file start at zero together.
C36_RotationAtBoundary ==
    [][Rotated => /\ pc = "rotate"
                  /\ pc' = "loop"
                  /\ cur.data = passed
                  /\ fin'.header * Channels = passed
                  /\ w'.sample = 0
                  /\ cur'.data = 0]_vars

C36_Witness ==
    /\ created = 2
    /\ pc = "loop"
    /\ fin.header = 1
    /\ w.sample = 0
    /\ cur.data = 0

\* ------------------------------------------------------ health code export
\* C37: the poll reads and clears a health code in one step: a code other
\* than Ok leaves its cell for Ok only in a step that exports it, for
\* either device and under every interleaving with the stores.
C37_ClearedOnlyWhenReturned ==
    [][/\ (status # StatusOk /\ status' = StatusOk) => statuses_umc' = status
       /\ (i2s_status # StatusOk /\ i2s_status' = StatusOk)
            => statuses_i2s' = i2s_status]_vars

C37_Witness ==
    /\ statuses_umc = StatusDisconnected
    /\ status = StatusOk
    /\ statuses_i2s = StatusNoData
    /\ i2s_status = StatusDisconnected

\* C38: a Disconnected code stored by the error handler stays in its cell
\* until a poll exports it: no later store of the reopened session
\* replaces it first.
C38_DisconnectedReachesTelemetry ==
    [][(status = StatusDisconnected /\ status' # StatusDisconnected)
         => statuses_umc' = StatusDisconnected]_vars

====
